---- MODULE Spec2Model ----
(***************************************************************************)
(* Request admission pipeline of danmu_api: token check, path              *)
(* normalisation, routing, cache-first comment lookup and the per-client   *)
(* sliding-window rate limiter of handleRequest.                           *)
(*                                                                         *)
(* Paths are sequences of one-character strings, so that split, join,      *)
(* startsWith and substring work on characters as they do in the source.   *)
(***************************************************************************)
EXTENDS Integers, Sequences, FiniteSets, Bags, TLC

(***************************************************************************)
(* Bounds of the model.                                                    *)
(***************************************************************************)
\* the clock takes the values 60000*k - 1, 60000*k, 60000*k + 1, k <= MaxMinutes
MaxMinutes == 1
\* the configured rateLimitMaxRequests ranges over -1 .. MaxCapacity
MaxCapacity == 2
\* number of requests that may be in flight at once
MaxInFlight == 2
\* longest run of accidental "/api/v2" prefixes in a request path
MaxDup == 3

\* the longest tail of segments after the /api/v2 prefixes of a generated path
MaxTail == 2
\* number of httpGet calls that may be started
MaxCalls == 2

(***************************************************************************)
(* Characters and strings.                                                 *)
(***************************************************************************)
Digits == <<"0", "1", "2", "3", "4", "5", "6", "7", "8", "9">>

\* String.prototype.startsWith
startsWith(s, p) == Len(s) >= Len(p) /\ SubSeq(s, 1, Len(p)) = p

\* String.prototype.substring(n): the string without its first n characters
substring(s, n) == SubSeq(s, n + 1, Len(s))

RECURSIVE split(_)
\* String.prototype.split("/"): the pieces between slashes, empty ones included
split(s) ==
  IF \A i \in 1..Len(s) : s[i] # "/" THEN <<s>>
  ELSE LET slash == CHOOSE i \in 1..Len(s) : s[i] = "/" /\ \A j \in 1..(i - 1) : s[j] # "/"
       IN <<SubSeq(s, 1, slash - 1)>> \o split(SubSeq(s, slash + 1, Len(s)))

\* Array.prototype.filter(Boolean) on strings: drops the empty ones
filterBoolean(ss) == SelectSeq(ss, LAMBDA x : x # <<>>)

RECURSIVE join(_)
\* Array.prototype.join("/")
join(ss) ==
  IF ss = <<>> THEN <<>>
  ELSE IF Len(ss) = 1 THEN ss[1]
  ELSE ss[1] \o <<"/">> \o join(Tail(ss))

\* Array.prototype.pop() on a non-empty array: its last element
pop(ss) == ss[Len(ss)]

\* a JavaScript number: NaN, or an integer value
NaN == [nan |-> TRUE, value |-> 0]

Number(n) == [nan |-> FALSE, value |-> n]

DigitValue(c) == (CHOOSE i \in 1..10 : Digits[i] = c) - 1

IsDigit(c) == \E i \in 1..10 : Digits[i] = c

RECURSIVE DigitPrefix(_, _)
\* the value of the longest prefix of digits of s, read after the value acc
DigitPrefix(s, acc) ==
  IF s = <<>> \/ ~IsDigit(Head(s)) THEN acc
  ELSE DigitPrefix(Tail(s), 10 * acc + DigitValue(Head(s)))

\* parseInt(string): an optional sign, then the longest prefix of digits;
\* NaN when there is no digit
parseInt(s) ==
  LET signed == s # <<>> /\ Head(s) \in {"-", "+"}
      body == IF signed THEN Tail(s) ELSE s
  IN IF body = <<>> \/ ~IsDigit(Head(body)) THEN NaN
     ELSE IF signed /\ Head(s) = "-" THEN Number(0 - DigitPrefix(body, 0))
     ELSE Number(DigitPrefix(body, 0))

(***************************************************************************)
(* Literals of the source.                                                 *)
(***************************************************************************)
Root == <<"/">>
FaviconPath == <<"/", "f", "a", "v", "i", "c", "o", "n", ".", "i", "c", "o">>
RobotsPath == <<"/", "r", "o", "b", "o", "t", "s", ".", "t", "x", "t">>
ApiV2 == <<"/", "a", "p", "i", "/", "v", "2">>
ApiLogs == <<"/", "a", "p", "i", "/", "l", "o", "g", "s">>
SearchAnimePath == ApiV2 \o <<"/", "s", "e", "a", "r", "c", "h", "/", "a", "n", "i", "m", "e">>
SearchEpisodesPath ==
  ApiV2 \o <<"/", "s", "e", "a", "r", "c", "h", "/", "e", "p", "i", "s", "o", "d", "e", "s">>
MatchPath == ApiV2 \o <<"/", "m", "a", "t", "c", "h">>
BangumiPrefix == ApiV2 \o <<"/", "b", "a", "n", "g", "u", "m", "i", "/">>
CommentPrefix == ApiV2 \o <<"/", "c", "o", "m", "m", "e", "n", "t">>

\* const oneMinute = 60 * 1000
oneMinute == 60 * 1000

\* globals.token, the configured secret path segment
token == <<"t", "k">>

\* the absent value of searchParams.get and findUrlById
null == "null"

\* the comment sources known to the model
Urls == {"U1"}

\* the Id -> URL index: comment id 1 resolves to U1, no other id resolves
UrlIndex == (1 :> "U1")

\* what the Comment Cache holds for a URL: nothing, or a list of comments
CacheAbsent == <<>>
CacheLists == {<<>>, <<"c1">>}
CacheValues == {CacheAbsent} \cup {<<l>> : l \in CacheLists}

(***************************************************************************)
(* Collaborators of handleRequest.                                         *)
(***************************************************************************)
\* getCommentCache(url): <<list>> when the cache has an entry, <<>> for null
getCommentCache(cache, url) == cache[url]

\* findUrlById(commentId): the URL of a known id, null otherwise
findUrlById(commentId) ==
  IF ~commentId.nan /\ commentId.value \in DOMAIN UrlIndex
  THEN UrlIndex[commentId.value] ELSE null

\* Map.prototype.set
MapSet(m, k, v) == [x \in DOMAIN m \cup {k} |-> IF x = k THEN v ELSE m[x]]

\* the timestamps of h that the window ending at currentTime still holds
InWindow(h, currentTime) == SelectSeq(h, LAMBDA ts : currentTime - ts <= oneMinute)

\* cleanupExpiredIPs(currentTime): every tracked client loses the timestamps
\* older than currentTime - 60s; a client left with none is forgotten
cleanupExpiredIPs(history, currentTime) ==
  LET live == {ip \in DOMAIN history : InWindow(history[ip], currentTime) # <<>>}
  IN [ip \in live |-> InWindow(history[ip], currentTime)]

(***************************************************************************)
(* handleRequest.                                                          *)
(***************************************************************************)
\* what one run of handleRequest did; status 0 stands for the status the
\* delegated handler will produce
Result(status, body, handler, path, dispatched, lookups, hit, comments, limiter, admitted, history) ==
  [status |-> status, body |-> body, handler |-> handler, path |-> path,
   dispatched |-> dispatched, lookups |-> lookups, cacheHit |-> hit,
   comments |-> comments, limiter |-> limiter, admitted |-> admitted,
   history |-> history]

\* a response the core produces itself, before any cache or limiter use
Direct(status, body, path, dispatched, history) ==
  Result(status, body, "none", path, dispatched, 0, FALSE, <<>>, 0, FALSE, history)

\* a request handed to a downstream handler that is not rate limited
Delegate(handler, path, history) ==
  Result(0, "", handler, path, TRUE, 0, FALSE, <<>>, 0, FALSE, history)

\* UrlBranchLimit refusing only above the capacity
UrlBranchLimitOffByOne(history, clientIp, currentTime, rateLimitMaxRequests) ==
  LET swept == cleanupExpiredIPs(history, currentTime)
      tracked == IF clientIp \in DOMAIN swept THEN swept
                 ELSE MapSet(swept, clientIp, <<>>)
      recentRequests ==
        SelectSeq(tracked[clientIp], LAMBDA timestamp : currentTime - timestamp <= oneMinute)
  IN IF Len(recentRequests) > rateLimitMaxRequests
     THEN [admitted |-> FALSE, history |-> tracked]
     ELSE [admitted |-> TRUE,
           history |-> MapSet(tracked, clientIp, Append(recentRequests, currentTime))]

\* UrlBranchLimit with a window that ends just before one minute
UrlBranchLimitStrictWindow(history, clientIp, currentTime, rateLimitMaxRequests) ==
  LET swept == cleanupExpiredIPs(history, currentTime)
      tracked == IF clientIp \in DOMAIN swept THEN swept
                 ELSE MapSet(swept, clientIp, <<>>)
      recentRequests ==
        SelectSeq(tracked[clientIp], LAMBDA timestamp : currentTime - timestamp < oneMinute)
  IN IF Len(recentRequests) >= rateLimitMaxRequests
     THEN [admitted |-> FALSE, history |-> tracked]
     ELSE [admitted |-> TRUE,
           history |-> MapSet(tracked, clientIp, Append(recentRequests, currentTime))]

\* the rate-limit block of the url branch: [admitted, history]
UrlBranchLimit(history, clientIp, currentTime, rateLimitMaxRequests) ==
  LET swept == cleanupExpiredIPs(history, currentTime)
      tracked == IF clientIp \in DOMAIN swept THEN swept
                 ELSE MapSet(swept, clientIp, <<>>)
      recentRequests ==
        SelectSeq(tracked[clientIp], LAMBDA timestamp : currentTime - timestamp <= oneMinute)
  IN IF Len(recentRequests) >= rateLimitMaxRequests
     THEN [admitted |-> FALSE, history |-> tracked]
     ELSE [admitted |-> TRUE,
           history |-> MapSet(tracked, clientIp, Append(recentRequests, currentTime))]

\* IdBranchLimit refusing only above the capacity
IdBranchLimitOffByOne(history, clientIp, currentTime, rateLimitMaxRequests) ==
  LET swept == cleanupExpiredIPs(history, currentTime)
      tracked == IF clientIp \in DOMAIN swept THEN swept
                 ELSE MapSet(swept, clientIp, <<>>)
      recentRequests ==
        SelectSeq(tracked[clientIp], LAMBDA timestamp : currentTime - timestamp <= oneMinute)
  IN IF Len(recentRequests) > rateLimitMaxRequests
     THEN [admitted |-> FALSE, history |-> tracked]
     ELSE [admitted |-> TRUE,
           history |-> MapSet(tracked, clientIp, Append(recentRequests, currentTime))]

\* IdBranchLimit recording the timestamp of a refused request too
IdBranchLimitRecordsRefusal(history, clientIp, currentTime, rateLimitMaxRequests) ==
  LET swept == cleanupExpiredIPs(history, currentTime)
      tracked == IF clientIp \in DOMAIN swept THEN swept
                 ELSE MapSet(swept, clientIp, <<>>)
      recentRequests ==
        SelectSeq(tracked[clientIp], LAMBDA timestamp : currentTime - timestamp <= oneMinute)
  IN IF Len(recentRequests) >= rateLimitMaxRequests
     THEN [admitted |-> FALSE, history |-> MapSet(tracked, clientIp, Append(recentRequests, currentTime))]
     ELSE [admitted |-> TRUE,
           history |-> MapSet(tracked, clientIp, Append(recentRequests, currentTime))]

\* IdBranchLimit keeping one sequence, that of "unknown", for every client
IdBranchLimitSharedBucket(history, clientIp, currentTime, rateLimitMaxRequests) ==
  UrlBranchLimit(history, "unknown", currentTime, rateLimitMaxRequests)

\* IdBranchLimit counting the refused attempts too: every attempt is recorded
IdBranchLimitCountsAttempts(history, clientIp, currentTime, rateLimitMaxRequests) ==
  LET swept == cleanupExpiredIPs(history, currentTime)
      tracked == IF clientIp \in DOMAIN swept THEN swept
                 ELSE MapSet(swept, clientIp, <<>>)
      recentRequests ==
        SelectSeq(tracked[clientIp], LAMBDA timestamp : currentTime - timestamp <= oneMinute)
      recorded == MapSet(tracked, clientIp, Append(recentRequests, currentTime))
  IN [admitted |-> Len(recentRequests) < rateLimitMaxRequests, history |-> recorded]

\* the rate-limit block of the commentId branch: [admitted, history]
IdBranchLimit(history, clientIp, currentTime, rateLimitMaxRequests) ==
  LET swept == cleanupExpiredIPs(history, currentTime)
      tracked == IF clientIp \in DOMAIN swept THEN swept
                 ELSE MapSet(swept, clientIp, <<>>)
      recentRequests ==
        SelectSeq(tracked[clientIp], LAMBDA timestamp : currentTime - timestamp <= oneMinute)
  IN IF Len(recentRequests) >= rateLimitMaxRequests
     THEN [admitted |-> FALSE, history |-> tracked]
     ELSE [admitted |-> TRUE,
           history |-> MapSet(tracked, clientIp, Append(recentRequests, currentTime))]

TooManyRequests(path, lookups, history) ==
  Result(429, "Too many requests, please try again later", "none", path, TRUE,
         lookups, FALSE, <<>>, 1, FALSE, history)

\* CommentByUrl consulting the rate limiter before the cache
CommentByUrlLimitFirst(path, videoUrl, clientIp, history, cache, cap, currentTime) ==
  LET cachedComments == getCommentCache(cache, videoUrl)
      r == IF cap > 0 THEN UrlBranchLimit(history, clientIp, currentTime, cap)
           ELSE [admitted |-> FALSE, history |-> history]
      limiter == IF cap > 0 THEN 1 ELSE 0
  IN IF cap > 0 /\ ~r.admitted THEN TooManyRequests(path, 0, r.history)
     ELSE IF cachedComments # CacheAbsent
     THEN Result(200, "", "none", path, TRUE, 1, TRUE, cachedComments[1], limiter, r.admitted,
                 r.history)
     ELSE Result(0, "", "getCommentByUrl", path, TRUE, 1, FALSE, <<>>, limiter, r.admitted,
                 r.history)

\* CommentByUrl taking every capacity but zero for an enabled limiter
CommentByUrlLimitsUnlessZero(path, videoUrl, clientIp, history, cache, cap, currentTime) ==
  LET cachedComments == getCommentCache(cache, videoUrl)
  IN IF cachedComments # CacheAbsent
     THEN Result(200, "", "none", path, TRUE, 1, TRUE, cachedComments[1], 0, FALSE, history)
     ELSE IF cap # 0
     THEN LET r == UrlBranchLimit(history, clientIp, currentTime, cap)
          IN IF ~r.admitted THEN TooManyRequests(path, 1, r.history)
             ELSE Result(0, "", "getCommentByUrl", path, TRUE, 1, FALSE, <<>>, 1, TRUE,
                         r.history)
     ELSE Result(0, "", "getCommentByUrl", path, TRUE, 1, FALSE, <<>>, 0, FALSE, history)

\* the comment route with a url query parameter
CommentByUrl(path, videoUrl, clientIp, history, cache, cap, currentTime) ==
  LET cachedComments == getCommentCache(cache, videoUrl)
  IN IF cachedComments # CacheAbsent
     THEN Result(200, "", "none", path, TRUE, 1, TRUE, cachedComments[1], 0, FALSE, history)
     ELSE IF cap > 0
     THEN LET r == UrlBranchLimit(history, clientIp, currentTime, cap)
          IN IF ~r.admitted THEN TooManyRequests(path, 1, r.history)
             ELSE Result(0, "", "getCommentByUrl", path, TRUE, 1, FALSE, <<>>, 1, TRUE,
                         r.history)
     ELSE Result(0, "", "getCommentByUrl", path, TRUE, 1, FALSE, <<>>, 0, FALSE, history)

\* CommentById going on to getComment after a refusal
CommentByIdDelegatesRefused(path, clientIp, history, cache, cap, currentTime) ==
  IF ~startsWith(path, CommentPrefix \o <<"/">>)
  THEN Direct(400, "Missing commentId or url parameter", path, TRUE, history)
  ELSE
    LET commentId == parseInt(pop(split(path)))
        urlForComment == findUrlById(commentId)
        cachedComments == IF urlForComment # null
                          THEN getCommentCache(cache, urlForComment) ELSE CacheAbsent
        lookups == IF urlForComment # null THEN 1 ELSE 0
    IN IF cachedComments # CacheAbsent
       THEN Result(200, "", "none", path, TRUE, 1, TRUE, cachedComments[1], 0, FALSE,
                   history)
       ELSE IF cap > 0
       THEN LET r == IdBranchLimit(history, clientIp, currentTime, cap)
            IN Result(0, "", "getComment", path, TRUE, lookups, FALSE, <<>>, 1, r.admitted,
                      r.history)
       ELSE Result(0, "", "getComment", path, TRUE, lookups, FALSE, <<>>, 0, FALSE, history)

\* the comment route without a url query parameter
CommentById(path, clientIp, history, cache, cap, currentTime) ==
  IF ~startsWith(path, CommentPrefix \o <<"/">>)
  THEN Direct(400, "Missing commentId or url parameter", path, TRUE, history)
  ELSE
    LET commentId == parseInt(pop(split(path)))
        urlForComment == findUrlById(commentId)
        cachedComments == IF urlForComment # null
                          THEN getCommentCache(cache, urlForComment) ELSE CacheAbsent
        lookups == IF urlForComment # null THEN 1 ELSE 0
    IN IF cachedComments # CacheAbsent
       THEN Result(200, "", "none", path, TRUE, 1, TRUE, cachedComments[1], 0, FALSE,
                   history)
       ELSE IF cap > 0
       THEN LET r == IdBranchLimit(history, clientIp, currentTime, cap)
            IN IF ~r.admitted THEN TooManyRequests(path, lookups, r.history)
               ELSE Result(0, "", "getComment", path, TRUE, lookups, FALSE, <<>>, 1, TRUE,
                           r.history)
       ELSE Result(0, "", "getComment", path, TRUE, lookups, FALSE, <<>>, 0, FALSE, history)

\* CollapsePrefix with an if in place of the while: one copy is removed
CollapsePrefixOnce(path) ==
  IF startsWith(path, ApiV2 \o ApiV2 \o <<"/">>)
  THEN substring(path, Len(ApiV2))
  ELSE path

\* the path normalisation: collapse duplicated /api/v2 prefixes, then
\* complete a missing one
RECURSIVE CollapsePrefix(_)
CollapsePrefix(path) ==
  IF startsWith(path, ApiV2 \o ApiV2 \o <<"/">>)
  THEN CollapsePrefix(substring(path, Len(ApiV2)))
  ELSE path

\* NormalizePath without the completion of a missing prefix
NormalizePathNoCompletion(path) ==
  IF path # Root /\ path # ApiLogs THEN CollapsePrefix(path) ELSE path

\* NormalizePath taking every path under /api for one that has its prefix
NormalizePathSkipsApi(path) ==
  IF path # Root /\ path # ApiLogs
  THEN LET cleaned == CollapsePrefix(path)
       IN IF ~startsWith(cleaned, <<"/", "a", "p", "i">>) /\ cleaned # Root
             /\ ~startsWith(cleaned, ApiLogs)
          THEN ApiV2 \o cleaned
          ELSE cleaned
  ELSE path

NormalizePath(path) ==
  IF path # Root /\ path # ApiLogs
  THEN LET cleaned == CollapsePrefix(path)
       IN IF ~startsWith(cleaned, ApiV2) /\ cleaned # Root /\ ~startsWith(cleaned, ApiLogs)
          THEN ApiV2 \o cleaned
          ELSE cleaned
  ELSE path

\* Dispatch with a comment route that does not look at the method
DispatchCommentAnyMethod(path, method, videoUrl, clientIp, history, cache, cap, currentTime) ==
  IF path = Root /\ method = "GET"
  THEN Direct(200, "homepage", path, TRUE, history)
  ELSE IF path = SearchAnimePath /\ method = "GET"
  THEN Delegate("searchAnime", path, history)
  ELSE IF path = SearchEpisodesPath /\ method = "GET"
  THEN Delegate("searchEpisodes", path, history)
  ELSE IF path = MatchPath /\ method = "POST"
  THEN Delegate("matchAnime", path, history)
  ELSE IF startsWith(path, BangumiPrefix) /\ method = "GET"
  THEN Delegate("getBangumi", path, history)
  ELSE IF startsWith(path, CommentPrefix)
  THEN IF videoUrl # null /\ videoUrl # ""
       THEN CommentByUrl(path, videoUrl, clientIp, history, cache, cap, currentTime)
       ELSE CommentById(path, clientIp, history, cache, cap, currentTime)
  ELSE IF path = ApiLogs /\ method = "GET"
  THEN Direct(200, "logs", path, TRUE, history)
  ELSE Direct(404, "Not found", path, TRUE, history)

\* the routes tried on the normalised path
Dispatch(path, method, videoUrl, clientIp, history, cache, cap, currentTime) ==
  IF path = Root /\ method = "GET"
  THEN Direct(200, "homepage", path, TRUE, history)
  ELSE IF path = SearchAnimePath /\ method = "GET"
  THEN Delegate("searchAnime", path, history)
  ELSE IF path = SearchEpisodesPath /\ method = "GET"
  THEN Delegate("searchEpisodes", path, history)
  ELSE IF path = MatchPath /\ method = "POST"
  THEN Delegate("matchAnime", path, history)
  ELSE IF startsWith(path, BangumiPrefix) /\ method = "GET"
  THEN Delegate("getBangumi", path, history)
  ELSE IF startsWith(path, CommentPrefix) /\ method = "GET"
  THEN IF videoUrl # null /\ videoUrl # ""
       THEN CommentByUrl(path, videoUrl, clientIp, history, cache, cap, currentTime)
       ELSE CommentById(path, clientIp, history, cache, cap, currentTime)
  ELSE IF path = ApiLogs /\ method = "GET"
  THEN Direct(200, "logs", path, TRUE, history)
  ELSE Direct(404, "Not found", path, TRUE, history)

\* handleRequest accepting every first segment that starts with the token
handleRequestTokenPrefix(req, clientIp, history, cache, cap, currentTime) ==
  IF req.path = Root /\ req.method = "GET"
  THEN Direct(200, "homepage", req.path, FALSE, history)
  ELSE IF req.path = FaviconPath \/ req.path = RobotsPath
  THEN Direct(204, "", req.path, FALSE, history)
  ELSE
    LET parts == filterBoolean(split(req.path))
    IN IF Len(parts) < 1 \/ ~startsWith(parts[1], token)
       THEN Direct(401, "Unauthorized", req.path, FALSE, history)
       ELSE Dispatch(NormalizePath(<<"/">> \o join(Tail(parts))), req.method,
                     req.videoUrl, clientIp, history, cache, cap, currentTime)

\* handleRequest sweeping requestHistory for every request
handleRequestSweepsFirst(req, clientIp, history, cache, cap, currentTime) ==
  LET swept == cleanupExpiredIPs(history, currentTime)
  IN IF req.path = Root /\ req.method = "GET"
     THEN Direct(200, "homepage", req.path, FALSE, swept)
     ELSE IF req.path = FaviconPath \/ req.path = RobotsPath
     THEN Direct(204, "", req.path, FALSE, swept)
     ELSE
       LET parts == filterBoolean(split(req.path))
       IN IF Len(parts) < 1 \/ parts[1] # token
          THEN Direct(401, "Unauthorized", req.path, FALSE, swept)
          ELSE Dispatch(NormalizePath(<<"/">> \o join(Tail(parts))), req.method,
                        req.videoUrl, clientIp, swept, cache, cap, currentTime)

\* handleRequest from its first synchronous statement after the awaits to
\* its return
handleRequest(req, clientIp, history, cache, cap, currentTime) ==
  IF req.path = Root /\ req.method = "GET"
  THEN Direct(200, "homepage", req.path, FALSE, history)
  ELSE IF req.path = FaviconPath \/ req.path = RobotsPath
  THEN Direct(204, "", req.path, FALSE, history)
  ELSE
    LET parts == filterBoolean(split(req.path))
    IN IF Len(parts) < 1 \/ parts[1] # token
       THEN Direct(401, "Unauthorized", req.path, FALSE, history)
       ELSE Dispatch(NormalizePath(<<"/">> \o join(Tail(parts))), req.method,
                     req.videoUrl, clientIp, history, cache, cap, currentTime)

(***************************************************************************)
(* Inputs.                                                                 *)
(***************************************************************************)
\* the instants Date.now() takes: every minute mark and one millisecond after
\* it, so that timestamps are 0, 1, 59999, 60000 and 60001 ms old
Instants == UNION {{oneMinute * k, oneMinute * k + 1} : k \in 0..MaxMinutes}

\* the values of rateLimitMaxRequests: disabled (negative, zero) and enabled
Capacities == (0 - 1)..MaxCapacity

Clients == {"1.1.1.1", "unknown"}

Methods == {"GET", "POST"}

RECURSIVE Repeat(_, _)
\* k copies of the string s
Repeat(s, k) == IF k = 0 THEN <<>> ELSE s \o Repeat(s, k - 1)

SearchAnimeRest == substring(SearchAnimePath, Len(ApiV2))

\* what follows the token segment in a request path
WorkingPaths ==
  {<<>>, ApiLogs, ApiLogs \o <<"/", "x">>,
   SearchAnimeRest, SearchEpisodesPath, MatchPath,
   BangumiPrefix \o <<"1">>, SubSeq(BangumiPrefix, 1, Len(BangumiPrefix) - 1),
   CommentPrefix, CommentPrefix \o <<"/", "1">>,
   <<"/">> \o CommentPrefix \o <<"/", "1">>,
   substring(CommentPrefix, Len(ApiV2)) \o <<"/", "1">>,
   CommentPrefix \o <<"/", "9">>, CommentPrefix \o <<"/", "1", "a">>,
   CommentPrefix \o <<"/", "x">>, CommentPrefix \o <<"s">>,
   CommentPrefix \o <<"s", "/", "1">>,
   ApiV2 \o ApiV2, <<"/", "x">>}
  \cup {Repeat(ApiV2, k) \o SearchAnimeRest : k \in 1..MaxDup}

\* first segments that are not the token
WrongTokens == {<<"t">>, <<"t", "k", "x">>}

\* request paths: the three open ones, paths under the token, paths under a
\* wrong token or under none
RawPaths ==
  {Root, FaviconPath, RobotsPath, <<"/", "/">>}
  \cup {<<"/">> \o token \o w : w \in WorkingPaths}
  \cup {<<"/">> \o bad \o SearchAnimePath : bad \in WrongTokens}
  \cup {SearchAnimePath, CommentPrefix \o <<"/", "1">>}

\* every request: a path, a method and the url query parameter
Requests ==
  [path : RawPaths, method : Methods, videoUrl : {null} \cup Urls]
  \cup {[path |-> <<"/">> \o token \o CommentPrefix \o id, method |-> "GET", videoUrl |-> ""] : id \in {<<>>, <<"/", "1">>}}

\* the GET requests for comments under the token: by url, by an id that
\* resolves to a url, by an id that does not
CommentRequests ==
  {[path |-> <<"/">> \o token \o CommentPrefix, method |-> "GET", videoUrl |-> "U1"]}
  \cup {[path |-> <<"/">> \o token \o CommentPrefix \o <<"/">> \o id, method |-> "GET", videoUrl |-> null] : id \in {<<"1">>, <<"9">>}}

\* the segments generated paths are made of
Segments == {<<"a", "p", "i">>, <<"v", "2">>, <<"l", "o", "g", "s">>, <<"x">>}

RECURSIVE TailsOf(_)
\* the paths of at most n segments, each segment after a slash
TailsOf(n) ==
  IF n = 0 THEN {<<>>}
  ELSE LET shorter == TailsOf(n - 1)
       IN shorter \cup {<<"/">> \o s \o t : s \in Segments, t \in shorter}

\* GET requests under the token: up to MaxDup copies of /api/v2, then a tail
PathRequests ==
  {[path |-> <<"/">> \o token \o Repeat(ApiV2, k) \o t, method |-> "GET", videoUrl |-> null] :
     k \in 0..MaxDup, t \in TailsOf(MaxTail)}

\* the deployment platforms, one entry point each
Platforms == {"cloudflare", "vercel", "netlify"}

\* the request headers the entry points read
HeaderNames == {"cf-connecting-ip", "x-forwarded-for", "x-nf-client-connection-ip"}

\* what an entry point gets: a cache-miss comment request, the headers (null
\* for one that is missing) and the address of the connection
\* (req.connection.remoteAddress, context.ip; null when undefined)
EntryRequests ==
  [path : {<<"/">> \o token \o CommentPrefix \o <<"/", "9">>}, method : {"GET"},
   videoUrl : {null}, platform : Platforms,
   headers : [HeaderNames -> {null, "1.1.1.1"}], address : {null, "1.1.1.1"}]

\* one request for every way a request can end outside the comment
\* admission, and a cache-miss comment request
FrameRequests ==
  {[path |-> p, method |-> "GET", videoUrl |-> null] :
     p \in {Root, FaviconPath, SearchAnimePath}
           \cup {<<"/">> \o token \o w :
                   w \in {<<>>, ApiLogs, <<"/", "x">>, SearchAnimePath, SearchEpisodesPath,
                          BangumiPrefix \o <<"1">>, CommentPrefix,
                          CommentPrefix \o <<"/", "9">>}}}
  \cup {[path |-> <<"/">> \o token \o MatchPath, method |-> "POST", videoUrl |-> null]}

(***************************************************************************)
(* httpGet: one upstream GET under an abort timer.  A call is a record of  *)
(* its local variables: where it is suspended (pc), timeout, the state of  *)
(* the timer of timeoutId, controller.signal.aborted, the response of      *)
(* fetch, and what it returned or threw (outcomes).  It also records the   *)
(* error its try block raised (raised) and when the timer fired.           *)
(***************************************************************************)
\* the text '5000' that stands in for an unset globals.vodRequestTimeout
defaultTimeoutText == <<"5", "0", "0", "0">>

\* parseInt(globals.vodRequestTimeout || '5000', 10) || 5000; an unset
\* setting and an empty one are both the empty string
requestTimeout(vodRequestTimeout) ==
  LET parsed == parseInt(IF vodRequestTimeout # <<>> THEN vodRequestTimeout
                         ELSE defaultTimeoutText)
  IN IF parsed.nan \/ parsed.value = 0 THEN 5000 ELSE parsed.value

\* an Error object: its name and the pieces of its message
Error(name, message) == [name |-> name, message |-> message]

NoError == Error("", <<>>)

\* what fetch and the body readers reject with once the signal is aborted
AbortError == Error("AbortError", <<"This operation was aborted">>)

\* what fetch and the body readers reject with when the network fails
NetworkError == Error("TypeError", <<"fetch failed">>)

\* what decompressedStream.text() rejects with on data that is not deflate
InflateError == Error("TypeError", <<"The compressed data was not valid">>)

\* new Error(`HTTP error! status: ${response.status}`)
HttpStatusError(status) == Error("Error", <<"HTTP error! status: ", ToString(status)>>)

\* new Error(`Request timeout after ${timeout}ms`)
RequestTimeoutError(timeout) ==
  Error("Error", <<"Request timeout after ", ToString(timeout), "ms">>)

\* Response.ok
ok(status) == status >= 200 /\ status <= 299

NoHttpResponse == [ok |-> FALSE, status |-> 0, entries |-> <<>>]

\* the texts JSON.parse accepts
JsonTexts == {"{}"}

\* data of the returned object: the base64 text of the body with
\* options.base64Data, else the text of the body, parsed when it is JSON
ParsedData(mode, text) ==
  IF mode = "base64Data"
  THEN [json |-> FALSE, base64 |-> TRUE, text |-> text]
  ELSE [json |-> text \in JsonTexts, base64 |-> FALSE, text |-> text]

NoData == [json |-> FALSE, base64 |-> FALSE, text |-> ""]

RECURSIVE joinCookies(_)
\* setCookieValues.join(';'): the values with a ";" between them
joinCookies(values) ==
  IF Len(values) = 1 THEN <<values[1]>>
  ELSE <<values[1], ";">> \o joinCookies(Tail(values))

\* the headers of the returned object: every header of the response under
\* its name, the set-cookie ones joined into one
CollectHeaders(entries) ==
  LET setCookie == SelectSeq(entries, LAMBDA e : e[1] = "set-cookie")
      others == SelectSeq(entries, LAMBDA e : e[1] # "set-cookie")
      setCookieValues == [i \in 1..Len(setCookie) |-> setCookie[i][2]]
      last(key) == CHOOSE i \in 1..Len(others) :
                     others[i][1] = key /\ \A j \in (i + 1)..Len(others) : others[j][1] # key
  IN [key \in {others[i][1] : i \in 1..Len(others)}
                \cup (IF Len(setCookieValues) > 0 THEN {"set-cookie"} ELSE {}) |->
        IF key = "set-cookie" THEN joinCookies(setCookieValues)
        ELSE <<others[last(key)][2]>>]

\* the call as httpGet leaves it at its first await
NewCall(timeout, mode) ==
  [pc |-> "fetch", timeout |-> timeout, mode |-> mode, timer |-> "armed",
   aborted |-> FALSE, response |-> NoHttpResponse, raised |-> NoError,
   outcomes |-> <<>>, firedPending |-> FALSE, firedAfterExit |-> FALSE]

\* clearTimeout(timeoutId): a timer that has not fired never will
clearTimeout(call) == [call EXCEPT !.timer = IF @ = "armed" THEN "cleared" ELSE @]

\* the call leaves httpGet with a value or with an error
Exit(call, outcome) == [call EXCEPT !.pc = "done", !.outcomes = Append(@, outcome)]

Returned(data, status, headers) ==
  [kind |-> "return", data |-> data, status |-> status, headers |-> headers,
   error |-> NoError]

Thrown(error) ==
  [kind |-> "throw", data |-> NoData, status |-> 0, headers |-> <<>>, error |-> error]

\* CatchBlock leaving the timer as it is
CatchBlockKeepsTimer(call, error) ==
  LET caught == [call EXCEPT !.raised = error]
  IN IF error.name = "AbortError"
     THEN Exit(caught, Thrown(RequestTimeoutError(caught.timeout)))
     ELSE Exit(caught, Thrown(error))

\* the catch block of httpGet
CatchBlock(call, error) ==
  LET caught == clearTimeout([call EXCEPT !.raised = error])
  IN IF error.name = "AbortError"
     THEN Exit(caught, Thrown(RequestTimeoutError(caught.timeout)))
     ELSE Exit(caught, Thrown(error))

\* AfterFetch without the clearTimeout that follows the fetch
AfterFetchKeepsTimer(call, status, entries) ==
  LET got == [call EXCEPT !.response = [ok |-> ok(status), status |-> status, entries |-> entries]]
  IN IF ~got.response.ok
     THEN CatchBlock(got, HttpStatusError(status))
     ELSE [got EXCEPT !.pc = "body"]

\* from the response of fetch to the await of the body
AfterFetch(call, status, entries) ==
  LET got == clearTimeout([call EXCEPT !.response =
                             [ok |-> ok(status), status |-> status, entries |-> entries]])
  IN IF ~got.response.ok
     THEN CatchBlock(got, HttpStatusError(status))
     ELSE [got EXCEPT !.pc = "body"]

\* from the text of the body to the return
Return(call, text) ==
  Exit(call, Returned(ParsedData(call.mode, text), call.response.status,
                      CollectHeaders(call.response.entries)))

\* from the body to the return or, with options.zlibMode, to the await of
\* the decompressed text
AfterBody(call, body) ==
  IF call.mode = "zlibMode" THEN [call EXCEPT !.pc = "inflate"] ELSE Return(call, body)

\* the settings of globals.vodRequestTimeout: unset, 3000 ms, "0"
TimeoutSettings == {<<>>, <<"3", "0", "0", "0">>, <<"0">>}

\* options: neither base64Data nor zlibMode, base64Data, zlibMode
Modes == {"text", "base64Data", "zlibMode"}

\* the status of an upstream response
Statuses == {200, 404}

\* the header entries of an upstream response
HeaderEntries ==
  {<<>>, <<<<"content-type", "json">>, <<"set-cookie", "a">>, <<"set-cookie", "b">>>>}

\* the text of an upstream body: JSON, not JSON
Bodies == {"{}", "x"}

(***************************************************************************)
(* State.                                                                  *)
(***************************************************************************)
VARIABLES
  now,                   \* Date.now()
  rateLimitMaxRequests,  \* globals.rateLimitMaxRequests
  requestHistory,        \* globals.requestHistory: client -> timestamps
  commentCache,          \* the Comment Cache: url -> CacheValues
  tasks,                 \* the runs of handleRequest suspended at an await
  request,               \* the request of the last run that reached its return
  response,              \* what that run did
  before,                \* the clock, history and cache that run found
  admittedLog,           \* per client, the admitted requests of the last 60s
  httpCalls              \* the calls of httpGet: those in flight and those that ended

vars == <<now, rateLimitMaxRequests, requestHistory, commentCache, tasks, request, response, before, admittedLog, httpCalls>>

NoRequest == [path |-> <<>>, method |-> "", videoUrl |-> null, clientIp |-> ""]

NoResponse == [status |-> 0, body |-> "", handler |-> "none", path |-> <<>>, dispatched |-> FALSE, lookups |-> 0, cacheHit |-> FALSE, comments |-> <<>>, limiter |-> 0, admitted |-> FALSE]

NoBefore == [now |-> 0, requestHistory |-> <<>>, commentCache |-> [u \in Urls |-> CacheAbsent]]

\* a result without the history it leaves
Outcome(r) == [f \in DOMAIN r \ {"history"} |-> r[f]]

Init ==
  /\ now = 0
  /\ rateLimitMaxRequests \in Capacities
  /\ requestHistory = <<>>
  /\ commentCache = [u \in Urls |-> CacheAbsent]
  /\ tasks = EmptyBag
  /\ request = NoRequest
  /\ response = NoResponse
  /\ before = NoBefore
  /\ admittedLog = [c \in Clients |-> <<>>]
  /\ httpCalls = EmptyBag

(***************************************************************************)
(* Actions.                                                                *)
(***************************************************************************)
\* a step that is not the return of a run leaves no run to speak of
Forget ==
  /\ request' = NoRequest
  /\ response' = NoResponse
  /\ before' = NoBefore

\* the synchronous part of handleRequest, from line 382 to its return
Run(req, clientIp) ==
  \E r \in {handleRequest(req, clientIp, requestHistory, commentCache, rateLimitMaxRequests, now)} :
     /\ requestHistory' = r.history
     /\ request' = [f \in DOMAIN req \cup {"clientIp"} |-> IF f = "clientIp" THEN clientIp ELSE req[f]]
     /\ response' = Outcome(r)
     /\ before' = [now |-> now, requestHistory |-> requestHistory, commentCache |-> commentCache]
     /\ admittedLog' = IF r.admitted
                        THEN [admittedLog EXCEPT ![clientIp] = Append(@, now)]
                        ELSE admittedLog
     /\ UNCHANGED <<now, rateLimitMaxRequests, commentCache, httpCalls>>

\* one request handled from arrival to return while no other is in flight
Serve(req, clientIp) ==
  /\ tasks = EmptyBag
  /\ Run(req, clientIp)
  /\ UNCHANGED tasks

Task(pc, req, clientIp) == [pc |-> pc, req |-> req, clientIp |-> clientIp]

\* a request arrives and suspends at await judgeRedisValid(path)
Arrive(req, clientIp) ==
  /\ BagCardinality(tasks) < MaxInFlight
  /\ tasks' = tasks (+) SetToBag({Task("judgeRedisValid", req, clientIp)})
  /\ Forget
  /\ UNCHANGED <<now, rateLimitMaxRequests, requestHistory, commentCache, admittedLog, httpCalls>>

\* RunToReturn reading requestHistory, suspending once more, and only then
\* checking and writing back what it had read
RunToReturnStaleHistory(task) ==
  IF "seen" \notin DOMAIN task
  THEN /\ tasks' = (tasks (-) SetToBag({task}))
                   (+) SetToBag({[pc |-> task.pc, req |-> task.req, clientIp |-> task.clientIp,
                                  seen |-> requestHistory]})
       /\ Forget
       /\ UNCHANGED <<now, rateLimitMaxRequests, requestHistory, commentCache, admittedLog, httpCalls>>
  ELSE \E r \in {handleRequest(task.req, task.clientIp, task.seen, commentCache,
                               rateLimitMaxRequests, now)} :
          /\ requestHistory' = r.history
          /\ request' = [path |-> task.req.path, method |-> task.req.method,
                         videoUrl |-> task.req.videoUrl, clientIp |-> task.clientIp]
          /\ response' = Outcome(r)
          /\ before' = [now |-> now, requestHistory |-> requestHistory, commentCache |-> commentCache]
          /\ admittedLog' = IF r.admitted
                             THEN [admittedLog EXCEPT ![task.clientIp] = Append(@, now)]
                             ELSE admittedLog
          /\ tasks' = (tasks (-) SetToBag({task}))
                      (+) (IF r.handler # "none"
                           THEN SetToBag({Task("handler", task.req, task.clientIp)})
                           ELSE EmptyBag)
          /\ UNCHANGED <<now, rateLimitMaxRequests, commentCache, httpCalls>>

\* the run task goes on from its last await to its return; a run that
\* delegates stays in flight until the handler settles
RunToReturn(task) ==
  /\ Run(task.req, task.clientIp)
  /\ tasks' = (tasks (-) SetToBag({task}))
               (+) (IF response'.handler # "none"
                    THEN SetToBag({Task("handler", task.req, task.clientIp)})
                    ELSE EmptyBag)

\* judgeRedisValid settles: with Redis valid the run suspends again at
\* await getRedisCaches(), otherwise it runs to its return
AfterJudgeRedisValid(task, redisValid) ==
  /\ task.pc = "judgeRedisValid"
  /\ IF redisValid /\ task.req.path # FaviconPath /\ task.req.path # RobotsPath
     THEN /\ tasks' = (tasks (-) SetToBag({task}))
                      (+) SetToBag({Task("getRedisCaches", task.req, task.clientIp)})
          /\ Forget
          /\ UNCHANGED <<now, rateLimitMaxRequests, requestHistory, commentCache, admittedLog, httpCalls>>
     ELSE RunToReturn(task)

\* getRedisCaches settles and the run goes on to its return
AfterGetRedisCaches(task) ==
  /\ task.pc = "getRedisCaches"
  /\ RunToReturn(task)

\* HandlerReturn giving the slot back: the client's newest timestamp is dropped
HandlerReturnRollsBack(task) ==
  /\ task.pc = "handler"
  /\ tasks' = tasks (-) SetToBag({task})
  /\ requestHistory' =
       IF task.clientIp \in DOMAIN requestHistory /\ requestHistory[task.clientIp] # <<>>
       THEN [requestHistory EXCEPT ![task.clientIp] = SubSeq(@, 1, Len(@) - 1)]
       ELSE requestHistory
  /\ Forget
  /\ UNCHANGED <<now, rateLimitMaxRequests, commentCache, admittedLog, httpCalls>>

\* the delegated handler settles, with a response or with a failure
HandlerReturn(task) ==
  /\ task.pc = "handler"
  /\ tasks' = tasks (-) SetToBag({task})
  /\ Forget
  /\ UNCHANGED <<now, rateLimitMaxRequests, requestHistory, commentCache, admittedLog, httpCalls>>

\* JavaScript's a || b for strings, null and undefined
OrElse(a, b) == IF a # null /\ a # "" THEN a ELSE b

\* the Cloudflare Workers entry
fetch(req) ==
  /\ req.platform = "cloudflare"
  /\ Serve(req, OrElse(req.headers["cf-connecting-ip"],
                       OrElse(req.headers["x-forwarded-for"], "unknown")))

\* vercelHandler without the fallback to the address of the connection
vercelHandlerIgnoresAddress(req) ==
  /\ req.platform = "vercel"
  /\ Serve(req, OrElse(req.headers["x-forwarded-for"], "unknown"))

\* the Vercel entry
vercelHandler(req) ==
  /\ req.platform = "vercel"
  /\ Serve(req, OrElse(req.headers["x-forwarded-for"], OrElse(req.address, "unknown")))

\* the Netlify entry
netlifyHandler(req) ==
  /\ req.platform = "netlify"
  /\ Serve(req, OrElse(req.headers["x-nf-client-connection-ip"],
                       OrElse(req.headers["x-forwarded-for"],
                              OrElse(req.address, "unknown"))))

\* the clock advances to a later instant
Tick(t) ==
  /\ t > now
  /\ now' = t
  /\ admittedLog' = [c \in Clients |-> InWindow(admittedLog[c], t)]
  /\ Forget
  /\ UNCHANGED <<rateLimitMaxRequests, requestHistory, commentCache, tasks, httpCalls>>

\* the Comment Cache stores, replaces or evicts the entry of a URL
CacheChange(u, v) ==
  /\ commentCache[u] # v
  /\ commentCache' = [commentCache EXCEPT ![u] = v]
  /\ Forget
  /\ UNCHANGED <<now, rateLimitMaxRequests, requestHistory, tasks, admittedLog, httpCalls>>

\* what handleRequest works on, which httpGet leaves alone
handlerVars == <<now, rateLimitMaxRequests, requestHistory, commentCache, tasks, request, response, before, admittedLog>>

\* one call of httpCalls goes on
Proceed(call, next) ==
  /\ httpCalls' = (httpCalls (-) SetToBag({call})) (+) SetToBag({next})
  /\ UNCHANGED handlerVars

\* httpGet is called: it computes timeout, arms the timer and suspends at
\* await fetch
httpGet(vodRequestTimeout, mode) ==
  /\ BagCardinality(httpCalls) < MaxCalls
  /\ httpCalls' = httpCalls (+) SetToBag({NewCall(requestTimeout(vodRequestTimeout), mode)})
  /\ UNCHANGED handlerVars

\* the timer of timeoutId fires: controller.abort()
TimeoutFires(call) ==
  /\ call.timer = "armed"
  /\ Proceed(call, [call EXCEPT !.timer = "fired", !.aborted = TRUE,
                                !.firedPending = (call.pc = "fetch"),
                                !.firedAfterExit = (call.pc = "done")])

\* fetch resolves with a response; the call runs on to its next await or to
\* its end
FetchResolves(call, status, entries) ==
  /\ call.pc = "fetch"
  /\ ~call.aborted
  /\ Proceed(call, AfterFetch(call, status, entries))

\* fetch rejects: with an AbortError once the signal is aborted, with a
\* network error before
FetchRejects(call) ==
  /\ call.pc = "fetch"
  /\ Proceed(call, CatchBlock(call, IF call.aborted THEN AbortError ELSE NetworkError))

\* response.arrayBuffer() or response.text() resolves
BodyResolves(call, body) ==
  /\ call.pc = "body"
  /\ ~call.aborted
  /\ Proceed(call, AfterBody(call, body))

\* response.arrayBuffer() or response.text() rejects
BodyRejects(call) ==
  /\ call.pc = "body"
  /\ Proceed(call, CatchBlock(call, IF call.aborted THEN AbortError ELSE NetworkError))

\* decompressedStream.text() resolves
InflateResolves(call, text) ==
  /\ call.pc = "inflate"
  /\ Proceed(call, Return(call, text))

\* decompressedStream.text() rejects: the inner catch logs and rethrows
InflateRejects(call) ==
  /\ call.pc = "inflate"
  /\ Proceed(call, CatchBlock(call, InflateError))

(***************************************************************************)
(* Specifications.                                                         *)
(***************************************************************************)
\* comment requests of two clients, one after the other
Next ==
  \/ \E req \in CommentRequests, c \in Clients : Serve(req, c)
  \/ \E t \in Instants : Tick(t)
  \/ \E u \in Urls, v \in CacheValues : CacheChange(u, v)

Spec == Init /\ [][Next]_vars

\* every request of one client, one after the other at one instant
NextRoute ==
  \/ \E req \in Requests : Serve(req, "unknown")
  \/ \E u \in Urls, v \in CacheValues : CacheChange(u, v)

SpecRoute == Init /\ [][NextRoute]_vars

\* comment requests of one client in flight together, none of them cached
NextConc ==
  \/ \E req \in CommentRequests : Arrive(req, "1.1.1.1")
  \/ \E task \in BagToSet(tasks), redisValid \in BOOLEAN : AfterJudgeRedisValid(task, redisValid)
  \/ \E task \in BagToSet(tasks) : AfterGetRedisCaches(task)
  \/ \E task \in BagToSet(tasks) : HandlerReturn(task)
  \/ \E t \in Instants : Tick(t)

SpecConc == Init /\ [][NextConc]_vars

\* generated paths requested by one client, one after the other
NextPath == \E req \in PathRequests : Serve(req, "unknown")

SpecPath == Init /\ [][NextPath]_vars

\* cache-miss comment requests through the entry points, one after the
\* other at one instant
NextEntry ==
  \/ \E req \in EntryRequests : fetch(req)
  \/ \E req \in EntryRequests : vercelHandler(req)
  \/ \E req \in EntryRequests : netlifyHandler(req)

SpecEntry == Init /\ [][NextEntry]_vars

\* requests of every kind by one client while the clock advances
NextFrame ==
  \/ \E req \in FrameRequests : Serve(req, "unknown")
  \/ \E t \in Instants : Tick(t)

SpecFrame == Init /\ [][NextFrame]_vars

\* one client that keeps asking for comments that are not cached
Retry == \E req \in CommentRequests : Serve(req, "1.1.1.1")

\* Date.now() advances
Advance == \E t \in Instants : Tick(t)

NextRetry == Retry \/ Advance

\* the client keeps retrying and the clock keeps advancing.  No request is
\* in flight between two steps here, so Retry is enabled in every state and
\* its weak fairness is that it happens again and again.
SpecRetry == Init /\ [][NextRetry]_vars /\ []<><<Retry>>_vars /\ WF_vars(Advance)

\* calls of httpGet, in flight together, each with its timer and its upstream
NextHttp ==
  \/ \E vodRequestTimeout \in TimeoutSettings, mode \in Modes : httpGet(vodRequestTimeout, mode)
  \/ \E call \in BagToSet(httpCalls) : TimeoutFires(call)
  \/ \E call \in BagToSet(httpCalls), status \in Statuses, entries \in HeaderEntries :
       FetchResolves(call, status, entries)
  \/ \E call \in BagToSet(httpCalls) : FetchRejects(call)
  \/ \E call \in BagToSet(httpCalls), body \in Bodies : BodyResolves(call, body)
  \/ \E call \in BagToSet(httpCalls) : BodyRejects(call)
  \/ \E call \in BagToSet(httpCalls), text \in Bodies : InflateResolves(call, text)
  \/ \E call \in BagToSet(httpCalls) : InflateRejects(call)

SpecHttp == Init /\ [][NextHttp]_vars

(***************************************************************************)
(* Vocabulary of the properties.  They speak of the last run that reached  *)
(* its return: of request, of response, and of the state it found (before) *)
(* and left (requestHistory, which only a run changes).                    *)
(***************************************************************************)
\* the timestamps recorded for client c in the history h
Recorded(h, c) == IF c \in DOMAIN h THEN h[c] ELSE <<>>

HistoryOf(c) == Recorded(requestHistory, c)

\* what the requesting client had on record when the last run started
HistoryBefore == Recorded(before.requestHistory, request.clientIp)

\* how many timestamps of h lie in the 60-second window that ends at w
CountInWindow(h, w) == Cardinality({i \in 1..Len(h) : w - oneMinute <= h[i] /\ h[i] <= w})

\* how often the timestamp t occurs in h
Occurrences(h, t) == Cardinality({i \in 1..Len(h) : h[i] = t})

\* the last run served a GET for comments under the token
CommentRequest ==
  [path |-> request.path, method |-> request.method, videoUrl |-> request.videoUrl] \in CommentRequests

\* the comment source the last request names: its url parameter, or the
\* URL its comment id resolves to, or null
Source ==
  IF request.videoUrl # null /\ request.videoUrl # "" THEN request.videoUrl
  ELSE findUrlById(parseInt(pop(split(request.path))))

\* the last request found its source in the Comment Cache
Cached == Source # null /\ before.commentCache[Source] # CacheAbsent

\* the downstream handler of a comment request
UpstreamHandler ==
  IF request.videoUrl # null /\ request.videoUrl # "" THEN "getCommentByUrl" ELSE "getComment"

\* the last request was a comment request that missed the cache while the
\* limiter was enabled
LimitedMiss == CommentRequest /\ ~Cached /\ rateLimitMaxRequests > 0

(***************************************************************************)
(* C1: with capacity N > 0, after every step of any sequence of comment    *)
(* requests (by url or by id, of any clients, at non-decreasing clock      *)
(* values), every client's recorded timestamps have at most N entries in   *)
(* any 60-second window.                                                   *)
(***************************************************************************)
C1_WindowNeverExceedsCapacity ==
  rateLimitMaxRequests > 0 =>
    \A c \in DOMAIN requestHistory : \A w \in Instants :
      CountInWindow(requestHistory[c], w) <= rateLimitMaxRequests

\* both clients are at capacity in the current window and the last request was refused
C1_Witness ==
  /\ rateLimitMaxRequests > 0
  /\ response.status = 429
  /\ \A c \in Clients : CountInWindow(HistoryOf(c), now) = rateLimitMaxRequests

(***************************************************************************)
(* C2: a comment request whose source is cached (even with an empty list)  *)
(* returns the cached comments; the rate limiter is not consulted and      *)
(* requestHistory is not changed, also when the client is at capacity.     *)
(***************************************************************************)
C2_CacheHitBypassesLimiter ==
  (CommentRequest /\ Cached) =>
    /\ response.status = 200
    /\ response.cacheHit
    /\ response.comments = before.commentCache[Source][1]
    /\ response.limiter = 0
    /\ response.handler = "none"
    /\ requestHistory = before.requestHistory

\* an empty cached list was returned to a client that was at capacity
C2_Witness ==
  /\ response.cacheHit
  /\ response.comments = <<>>
  /\ rateLimitMaxRequests > 0
  /\ CountInWindow(HistoryBefore, before.now) = rateLimitMaxRequests

(***************************************************************************)
(* C3: with several requests of one client in flight, suspended only at    *)
(* the awaits, admission is atomic: the client never has more than N       *)
(* admitted requests in the current window, and every admitted request of  *)
(* the current window is still recorded in requestHistory.                 *)
(***************************************************************************)
C3_AdmissionIsAtomic ==
  rateLimitMaxRequests > 0 =>
    \A c \in Clients :
      /\ Len(admittedLog[c]) <= rateLimitMaxRequests
      /\ \A t \in Instants : Occurrences(admittedLog[c], t) <= Occurrences(HistoryOf(c), t)

\* a run was admitted and filled the window while another run of the same
\* client, in flight with it, is still suspended before its admission
C3_Witness ==
  /\ rateLimitMaxRequests > 0
  /\ response.admitted
  /\ Len(admittedLog[request.clientIp]) = rateLimitMaxRequests
  /\ \E b \in BagToSet(tasks) :
       b.clientIp = request.clientIp /\ b.pc \in {"judgeRedisValid", "getRedisCaches"}

(***************************************************************************)
(* C4: but for GET "/", "/favicon.ico" and "/robots.txt", a request whose  *)
(* path has no non-empty segment or whose first non-empty segment is not   *)
(* exactly the token gets 401 Unauthorized, and no route, no cache lookup, *)
(* no rate limiter and no handler is reached.                              *)
(***************************************************************************)
OpenRequest ==
  \/ request.path = Root /\ request.method = "GET"
  \/ request.path = FaviconPath
  \/ request.path = RobotsPath

\* the first non-empty segment of path p, <<>> when it has none
FirstSegment(p) ==
  LET starts == {i \in 1..Len(p) : p[i] # "/"}
  IN IF starts = {} THEN <<>>
     ELSE LET first == CHOOSE i \in starts : \A j \in starts : i <= j
              rest == {j \in first..Len(p) : p[j] = "/"}
              last == IF rest = {} THEN Len(p)
                      ELSE (CHOOSE j \in rest : \A k \in rest : j <= k) - 1
          IN SubSeq(p, first, last)

C4_WrongTokenIsUnauthorized ==
  (request # NoRequest /\ ~OpenRequest /\ FirstSegment(request.path) # token) =>
    /\ response.status = 401
    /\ response.body = "Unauthorized"
    /\ ~response.dispatched
    /\ response.lookups = 0
    /\ response.limiter = 0
    /\ response.handler = "none"
    /\ requestHistory = before.requestHistory

\* a comment request without the token was refused
C4_Witness ==
  /\ request.path = CommentPrefix \o <<"/", "1">>
  /\ request.method = "GET"
  /\ response.status = 401

(***************************************************************************)
(* C5: a comment request that misses the cache with capacity > 0 consults  *)
(* the rate limiter exactly once; its upstream handler is invoked if and   *)
(* only if it is admitted, and a refusal is a 429 without upstream call.   *)
(***************************************************************************)
C5_MissConsultsLimiterOnce ==
  LimitedMiss =>
    /\ response.limiter = 1
    /\ response.admitted <=> response.handler = UpstreamHandler
    /\ response.admitted \/ (response.status = 429 /\ response.handler = "none")
    /\ response.admitted <=> CountInWindow(HistoryBefore, before.now) < rateLimitMaxRequests

\* a request by id whose URL resolved but was not cached was refused
C5_Witness ==
  /\ request.videoUrl = null
  /\ response.lookups = 1
  /\ response.limiter = 1
  /\ response.status = 429

(***************************************************************************)
(* C6: for a client issuing cache-miss comment requests with capacity      *)
(* N > 0: the N-th request in a window is admitted, the (N+1)-th in the    *)
(* same window gets 429, and a request 60001 ms after the first admitted   *)
(* one is admitted although the other N-1 are still in the window.         *)
(***************************************************************************)
C6_RateLimitBoundary ==
  LimitedMiss =>
    LET h == HistoryBefore
        N == rateLimitMaxRequests
        inside == Cardinality({i \in 1..Len(h) : before.now - h[i] < oneMinute})
    IN /\ CountInWindow(h, before.now) = N - 1 => response.admitted
       /\ inside = N => response.status = 429
       /\ (Len(h) = N /\ before.now - h[1] = oneMinute + 1
             /\ \A i \in 2..N : before.now - h[i] <= oneMinute) => response.admitted

\* 60001 ms after the client's first request, a request was admitted next to
\* the N-1 requests made one millisecond after the first
C6_Witness ==
  /\ rateLimitMaxRequests >= 2
  /\ LimitedMiss
  /\ response.admitted
  /\ before.now = oneMinute + 1
  /\ HistoryBefore = <<0>> \o [i \in 1..(rateLimitMaxRequests - 1) |-> 1]

(***************************************************************************)
(* C7 as stated: with capacity N and N recorded timestamps of which the    *)
(* oldest is exactly 60000 ms old, the request is admitted.                *)
(***************************************************************************)
C7_ExactlyOneMinuteOldExpired ==
  (LimitedMiss /\ Len(HistoryBefore) = rateLimitMaxRequests
     /\ before.now - HistoryBefore[1] = oneMinute) => response.admitted

(***************************************************************************)
(* C7 amended: a timestamp recorded exactly 60000 ms before the admission  *)
(* check still counts: with capacity N and N recorded timestamps of which  *)
(* the oldest is exactly 60000 ms old, the request gets 429; with the      *)
(* oldest more than 60000 ms old it is admitted.                           *)
(***************************************************************************)
C7_ExactlyOneMinuteOldCounts ==
  (LimitedMiss /\ Len(HistoryBefore) = rateLimitMaxRequests) =>
    /\ before.now - HistoryBefore[1] = oneMinute =>
         (response.status = 429 /\ ~response.admitted)
    /\ before.now - HistoryBefore[1] > oneMinute => response.admitted

\* a request was refused because of a timestamp exactly one minute old
C7_Witness ==
  /\ LimitedMiss
  /\ Len(HistoryBefore) = rateLimitMaxRequests
  /\ before.now - HistoryBefore[1] = oneMinute
  /\ response.status = 429

(***************************************************************************)
(* C8: a refused admission appends no timestamp: after a 429 the client's  *)
(* timestamps inside the window are the ones it had before the request.    *)
(***************************************************************************)
C8_RefusalRecordsNothing ==
  response.status = 429 =>
    InWindow(HistoryOf(request.clientIp), before.now) = InWindow(HistoryBefore, before.now)

\* a request was refused, and its sweep dropped expired timestamps of
\* another client
C8_Witness ==
  /\ response.status = 429
  /\ requestHistory # before.requestHistory

(***************************************************************************)
(* C9: with a capacity of 0 or less, no comment request gets 429, every    *)
(* cache miss goes to its upstream handler, and requestHistory stays as it *)
(* is: never swept, no entry created, no timestamp appended.               *)
(***************************************************************************)
C9_DisabledLimiterIsInert ==
  rateLimitMaxRequests <= 0 =>
    /\ requestHistory = <<>>
    /\ requestHistory = before.requestHistory
    /\ response.status # 429
    /\ response.limiter = 0
    /\ (CommentRequest /\ ~Cached) => response.handler = UpstreamHandler

\* with a negative capacity a cache miss by url went to its handler
C9_Witness ==
  /\ rateLimitMaxRequests < 0
  /\ CommentRequest
  /\ ~Cached
  /\ response.handler = "getCommentByUrl"

(***************************************************************************)
(* C10 as stated: the path that reaches the routes after token stripping   *)
(* and normalisation equals "/", starts with "/api/v2" or equals           *)
(* "/api/logs".                                                            *)
(***************************************************************************)
C10_DispatchedPathExactLogs ==
  response.dispatched =>
    \/ response.path = Root
    \/ startsWith(response.path, ApiV2)
    \/ response.path = ApiLogs

(***************************************************************************)
(* C10 amended: the path that reaches the routes after token stripping and *)
(* normalisation equals "/", starts with "/api/v2" or starts with          *)
(* "/api/logs"; a path such as "/api/logs/x" reaches them unchanged.       *)
(***************************************************************************)
C10_DispatchedPathPrefix ==
  response.dispatched =>
    \/ response.path = Root
    \/ startsWith(response.path, ApiV2)
    \/ startsWith(response.path, ApiLogs)

\* "/api/logs/x" under the token reached the routes as it was
C10_Witness ==
  /\ response.dispatched
  /\ request.path = <<"/">> \o token \o ApiLogs \o <<"/", "x">>
  /\ response.path = ApiLogs \o <<"/", "x">>

\* the working path of the last request: its segments after the token, each
\* after a slash, or "/" when there is none
WorkingPath == <<"/">> \o join(Tail(filterBoolean(split(request.path))))

(***************************************************************************)
(* C11: path normalisation is idempotent: for every working path other     *)
(* than "/" and "/api/logs", the path the routes get is the normalisation  *)
(* of the working path, and normalising it again leaves it as it is.       *)
(***************************************************************************)
C11_NormalizationIsIdempotent ==
  (response.dispatched /\ WorkingPath # Root /\ WorkingPath # ApiLogs) =>
    /\ response.path = NormalizePath(WorkingPath)
    /\ NormalizePath(response.path) = response.path

\* a path with three copies of the prefix was collapsed to one
C11_Witness ==
  /\ response.dispatched
  /\ WorkingPath = Repeat(ApiV2, 3) \o <<"/", "x">>
  /\ response.path = ApiV2 \o <<"/", "x">>

\* the working path is k copies of "/api/v2" followed by rest
CopiesThen(k, rest) == WorkingPath = Repeat(ApiV2, k) \o rest

(***************************************************************************)
(* C12: a working path made of k >= 1 copies of "/api/v2" followed by a    *)
(* rest "/..." that is not itself under "/api/v2/" reaches the routes as   *)
(* "/api/v2" followed by the rest, so no path reaches them with the prefix *)
(* "/api/v2/api/v2/"; and a working path that is not "/" and starts with   *)
(* neither "/api/v2" nor "/api/logs" reaches them as "/api/v2" followed by *)
(* the working path.                                                       *)
(***************************************************************************)
C12_PrefixCollapseAndCompletion ==
  response.dispatched =>
    /\ \A k \in 1..(MaxDup + 1) : \A n \in 1..Len(WorkingPath) :
         LET rest == SubSeq(WorkingPath, Len(WorkingPath) - n + 1, Len(WorkingPath))
         IN (CopiesThen(k, rest) /\ Head(rest) = "/" /\ ~startsWith(rest, ApiV2 \o <<"/">>))
              => response.path = ApiV2 \o rest
    /\ ~startsWith(response.path, ApiV2 \o ApiV2 \o <<"/">>)
    /\ (WorkingPath # Root /\ ~startsWith(WorkingPath, ApiV2)
          /\ ~startsWith(WorkingPath, ApiLogs))
         => response.path = ApiV2 \o WorkingPath

\* "/api/x", which has no prefix "/api/v2", got it
C12_Witness ==
  /\ response.dispatched
  /\ WorkingPath = <<"/", "a", "p", "i", "/", "x">>
  /\ response.path = ApiV2 \o WorkingPath

\* the last request had no url query parameter
NoUrlParameter == request.videoUrl = null \/ request.videoUrl = ""

\* the last request was a GET of the comment route, "/api/v2/comment" or
\* "/api/v2/comment/{id}", without a url query parameter
CommentByIdRequest ==
  /\ response.dispatched
  /\ request.method = "GET"
  /\ NoUrlParameter
  /\ response.path = CommentPrefix \/ startsWith(response.path, CommentPrefix \o <<"/">>)

(***************************************************************************)
(* C13: a GET comment request without a url query parameter gets 400       *)
(* "Missing commentId or url parameter" whenever no segment follows        *)
(* "/api/v2/comment/" or the trailing segment does not parse as an         *)
(* integer, and neither the rate limiter nor the upstream handler is       *)
(* reached.                                                                *)
(***************************************************************************)
C13_UnparsableIdIsMissingParameter ==
  (CommentByIdRequest
     /\ (response.path = CommentPrefix \/ parseInt(pop(split(response.path))).nan)) =>
    /\ response.status = 400
    /\ response.body = "Missing commentId or url parameter"
    /\ response.limiter = 0
    /\ response.handler = "none"

\* "/api/v2/comment/x" went through the rate limiter to getComment
C13_Witness ==
  /\ CommentByIdRequest
  /\ response.path = CommentPrefix \o <<"/", "x">>
  /\ response.limiter = 1
  /\ response.admitted
  /\ response.handler = "getComment"

\* the path of the last request is one of the routing table, whatever the method
KnownRoutePath ==
  \/ response.path \in {Root, SearchAnimePath, SearchEpisodesPath, MatchPath, ApiLogs}
  \/ startsWith(response.path, BangumiPrefix) /\ Len(response.path) > Len(BangumiPrefix)
  \/ response.path = CommentPrefix
  \/ startsWith(response.path, CommentPrefix \o <<"/">>)

\* the method the routing table lists for the path of the last request
ListedMethod == IF response.path = MatchPath THEN "POST" ELSE "GET"

(***************************************************************************)
(* C14: an authenticated request whose method and normalised path match no *)
(* row of the routing table gets 404 "Not found"; so a GET of a path that  *)
(* only shares the prefix "/api/v2/comment", such as "/api/v2/comments",   *)
(* gets 404 without cache lookup, rate limiter or handler.                 *)
(***************************************************************************)
C14_UnmatchedIsNotFound ==
  (response.dispatched /\ ~(KnownRoutePath /\ request.method = ListedMethod)) =>
    /\ response.status = 404
    /\ response.body = "Not found"
    /\ response.lookups = 0
    /\ response.limiter = 0
    /\ response.handler = "none"

\* GET "/api/v2/comments" with a url parameter went through the rate limiter
\* to getCommentByUrl
C14_Witness ==
  /\ response.dispatched
  /\ request.method = "GET"
  /\ response.path = CommentPrefix \o <<"s">>
  /\ response.limiter = 1
  /\ response.admitted
  /\ response.handler = "getCommentByUrl"

EntryRequest == request # NoRequest /\ "platform" \in DOMAIN request

\* the last request carried no header with a client address
HeaderLess == EntryRequest /\ \A h \in HeaderNames : request.headers[h] = null

\* what the client "unknown" had on record when the last run started
UnknownBefore == Recorded(before.requestHistory, "unknown")

(***************************************************************************)
(* C17 as stated: every request without a client-IP header is rate limited *)
(* under "unknown": with capacity N and N timestamps of "unknown" in the   *)
(* window it is refused.                                                   *)
(***************************************************************************)
C17_HeaderLessIsUnknown ==
  (HeaderLess /\ rateLimitMaxRequests > 0) =>
    /\ request.clientIp = "unknown"
    /\ CountInWindow(UnknownBefore, before.now) = rateLimitMaxRequests => response.status = 429

(***************************************************************************)
(* C17 amended: a request is rate limited under "unknown" when it has no   *)
(* client-IP header and, on Vercel and Netlify, no connection address      *)
(* either; all such requests share one bucket: with capacity N and N       *)
(* timestamps of "unknown" in the window the next one is refused.  A       *)
(* header-less request with a connection address is limited under that     *)
(* address.                                                                *)
(***************************************************************************)
C17_NoAddressIsUnknown ==
  (HeaderLess /\ rateLimitMaxRequests > 0) =>
    IF request.platform = "cloudflare" \/ request.address = null
    THEN /\ request.clientIp = "unknown"
         /\ response.admitted <=>
              CountInWindow(UnknownBefore, before.now) < rateLimitMaxRequests
         /\ response.admitted \/ response.status = 429
    ELSE request.clientIp = request.address

\* a Netlify request without header and address was refused for the
\* timestamps of "unknown"
C17_Witness ==
  /\ HeaderLess
  /\ request.platform = "netlify"
  /\ request.address = null
  /\ rateLimitMaxRequests >= 2
  /\ Len(UnknownBefore) = rateLimitMaxRequests
  /\ response.status = 429

\* the last request ended outside the comment admission
EndedOutsideAdmission ==
  \/ response.body \in {"homepage", "logs"}
  \/ response.status \in {204, 401, 400, 404}
  \/ response.handler \in {"searchAnime", "searchEpisodes", "matchAnime", "getBangumi"}

(***************************************************************************)
(* C18: a request that ends in the homepage, a 204, a 401, a 400, a 404,   *)
(* the logs route or the search/anime, search/episodes, match or bangumi   *)
(* handler does not consult the rate limiter and leaves requestHistory as  *)
(* it is, expired timestamps included, whatever the capacity.              *)
(***************************************************************************)
C18_OnlyCommentRoutesTouchLimiter ==
  (request # NoRequest /\ EndedOutsideAdmission) =>
    /\ response.limiter = 0
    /\ ~response.admitted
    /\ requestHistory = before.requestHistory

\* a request ended in a handler other than the comment handlers while the
\* history held an expired timestamp, which it still holds
C18_Witness ==
  /\ response.handler = "getBangumi"
  /\ rateLimitMaxRequests > 0
  /\ \E i \in 1..Len(HistoryOf("unknown")) : now - HistoryOf("unknown")[i] > oneMinute

\* the clients other than the one of the last request
OtherClients == Clients \ {request.clientIp}

(***************************************************************************)
(* C19: a request of client A, admitted or refused, does not change        *)
(* whether a request of another client B is admitted: from B's sequence it *)
(* removes at most the timestamps that are already outside the 60-second   *)
(* window, so that the verdict on a request of B at any later instant is   *)
(* the one it would have been without A's request.                         *)
(***************************************************************************)
C19_ClientsAreIsolated ==
  request # NoRequest =>
    \A b \in OtherClients :
      LET was == Recorded(before.requestHistory, b)
          is == Recorded(requestHistory, b)
      IN /\ is = was \/ is = InWindow(was, before.now)
         /\ rateLimitMaxRequests > 0 =>
              \A t \in Instants :
                t >= before.now =>
                  /\ UrlBranchLimit(requestHistory, b, t, rateLimitMaxRequests).admitted
                       = UrlBranchLimit(before.requestHistory, b, t, rateLimitMaxRequests).admitted
                  /\ IdBranchLimit(requestHistory, b, t, rateLimitMaxRequests).admitted
                       = IdBranchLimit(before.requestHistory, b, t, rateLimitMaxRequests).admitted

\* the request of one client swept the expired timestamp of the other and
\* left it the one still in the window
C19_Witness ==
  /\ request.clientIp = "1.1.1.1"
  /\ response.limiter = 1
  /\ Recorded(before.requestHistory, "unknown") = <<0, 1>>
  /\ HistoryOf("unknown") = <<1>>

\* the last request was refused, and the clock can still pass the end of the
\* window of the client's oldest timestamp
RefusedBeforeWindowEnd ==
  /\ response.status = 429
  /\ \E t \in Instants : t - HistoryOf(request.clientIp)[1] > oneMinute

\* a request of a client whose record showed it at capacity is admitted
\* because the oldest timestamp on record is more than 60 seconds old
AdmittedAfterLockout ==
  /\ LimitedMiss
  /\ Len(HistoryBefore) = rateLimitMaxRequests
  /\ before.now - HistoryBefore[1] > oneMinute
  /\ response.admitted

(***************************************************************************)
(* C20: refused attempts never prolong a lockout: a client on record with  *)
(* N timestamps is admitted at a cache-miss request made more than 60      *)
(* seconds after the oldest of them, however many refused requests it made *)
(* in between; so while the clock advances, a client that was refused and  *)
(* keeps retrying is eventually admitted.                                  *)
(***************************************************************************)
C20_RetriesDoNotProlongLockout ==
  /\ []((LimitedMiss /\ Len(HistoryBefore) = rateLimitMaxRequests
           /\ before.now - HistoryBefore[1] > oneMinute) => response.admitted)
  /\ [](response.status = 429 =>
          /\ Len(HistoryBefore) = rateLimitMaxRequests
          /\ HistoryOf(request.clientIp) = HistoryBefore)
  /\ (RefusedBeforeWindowEnd ~> response.admitted)

\* a client that had been at capacity since instant 0 was admitted after the
\* end of that window
C20_Witness ==
  /\ AdmittedAfterLockout
  /\ rateLimitMaxRequests >= 2
  /\ HistoryBefore = [i \in 1..rateLimitMaxRequests |-> 0]

\* the calls of httpGet that ended
Ended == {call \in BagToSet(httpCalls) : call.pc = "done"}

\* the call ended as httpGet ends a call whose fetch was pending when the
\* timer fired
TimedOut(call) ==
  /\ call.outcomes[1].kind = "throw"
  /\ call.outcomes[1].error = RequestTimeoutError(call.timeout)

(***************************************************************************)
(* C21: a call of httpGet ends once, in one of three ways.  It returns     *)
(* {data, status, headers} only if fetch resolved with an ok status; it    *)
(* throws "Request timeout after <timeout>ms" exactly when the timer fired *)
(* while fetch was pending; in every other case it throws the error its    *)
(* try block raised, which for a response that is not ok is "HTTP error!   *)
(* status: <status>".  When it ends the timer is no longer armed, and no   *)
(* timer fires after the end of its call.                                  *)
(***************************************************************************)
C21_HttpGetEndsOnce ==
  \A call \in BagToSet(httpCalls) :
    /\ Len(call.outcomes) = IF call.pc = "done" THEN 1 ELSE 0
    /\ ~call.firedAfterExit
    /\ call.pc = "done" =>
         /\ call.timer # "armed"
         /\ call.outcomes[1].kind = "return" =>
              /\ call.response.ok
              /\ call.outcomes[1].status = call.response.status
              /\ ~call.firedPending
         /\ call.firedPending <=> TimedOut(call)
         /\ ~call.firedPending =>
              /\ call.outcomes[1].kind = "throw" =>
                   /\ call.raised # NoError
                   /\ call.outcomes[1].error = call.raised
              /\ (call.response # NoHttpResponse /\ ~call.response.ok) =>
                   /\ call.outcomes[1].kind = "throw"
                   /\ call.outcomes[1].error = HttpStatusError(call.response.status)

\* one call timed out after the default 5000 ms and another one returned,
\* its timer cleared and its two set-cookie headers joined
C21_Witness ==
  /\ \E call \in Ended :
       call.firedPending /\ call.timer = "fired"
         /\ call.outcomes[1].error.message = <<"Request timeout after ", "5000", "ms">>
  /\ \E call \in Ended :
       call.outcomes[1].kind = "return" /\ call.timer = "cleared"
         /\ "set-cookie" \in DOMAIN call.outcomes[1].headers
         /\ call.outcomes[1].headers["set-cookie"] = <<"a", ";", "b">>
====
